---- MODULE Spec2Model ----
(***************************************************************************)
(* C6Logger: the log writer (Log) and the log compaction                   *)
(* (CompressAndTrimLogFile) of src/src/Logger.cpp.                         *)
(*                                                                         *)
(* A std::string is a sequence of one-character strings.  Positions are    *)
(* the 0-based positions of the C++ code; the character at position i of s *)
(* is s[i + 1].  The log file is the sequence of its bytes.                *)
(***************************************************************************)
EXTENDS Integers, Sequences, FiniteSets, TLC

VARIABLES
    file,       \* the bytes of log.txt
    exists,     \* whether log.txt exists
    canRead,    \* whether log.txt can be opened for reading when it exists
    canWrite,   \* whether log.txt can be opened (created) for writing
    cout,       \* the lines written to std::cout
    cerr,       \* the lines written to std::cerr
    mutex,      \* logMutex: the thread that holds it, or NoThread
    pc,         \* pc[t]: where thread t is in Log
    frame,      \* frame[t]: the arguments and locals of thread t's call of Log
    done,       \* the calls of Log that returned, in the order of their return
    serial,     \* the file a one-at-a-time run of the calls in done produces
    maxLines,   \* the maxLines of the compaction under study
    passes,     \* compactions run since the file was last set up
    prevFile,   \* the bytes of the file before the last compaction
    inLines,    \* the logical lines the last compaction read
    outRecs,    \* the records the last compaction wrote
    arg,        \* the input of the function under study
    res         \* its result

vars == <<file, exists, canRead, canWrite, cout, cerr, mutex, pc, frame, done,
          serial, maxLines, passes, prevFile, inLines, outRecs, arg, res>>

fsVars == <<file, exists, canRead, canWrite>>
conVars == <<cout, cerr>>
thrVars == <<mutex, pc, frame, done, serial>>
cmpVars == <<maxLines, passes, prevFile, inLines, outRecs>>
fnVars == <<arg, res>>

-----------------------------------------------------------------------------
(* std::string *)

\* std::string::npos
NPOS == -1

NL == "\n"

Digits == <<"0", "1", "2", "3", "4", "5", "6", "7", "8", "9">>

\* std::isdigit
IsDigit(c) == c \in {"0", "1", "2", "3", "4", "5", "6", "7", "8", "9"}

\* c - '0'
DigitVal(c) == (CHOOSE d \in 1..10 : Digits[d] = c) - 1

Min(S) == CHOOSE x \in S : \A y \in S : x <= y

Max(S) == CHOOSE x \in S : \A y \in S : x >= y

\* pat occurs in s at position i
MatchAt(s, pat, i) ==
    /\ i >= 0
    /\ i + Len(pat) <= Len(s)
    /\ \A k \in 1..Len(pat) : s[i + k] = pat[k]

\* the positions from on at which pat occurs in s
Hits(s, pat, from) == {i \in from..(Len(s) - Len(pat)) : MatchAt(s, pat, i)}

MinOrNpos(S) == IF S = {} THEN NPOS ELSE Min(S)

MaxOrNpos(S) == IF S = {} THEN NPOS ELSE Max(S)

\* s.find(pat, from)
Find(s, pat, from) == MinOrNpos(Hits(s, pat, from))

\* s.rfind(pat)
RFind(s, pat) == MaxOrNpos(Hits(s, pat, 0))

\* s.substr(pos)
SubstrFrom(s, pos) == SubSeq(s, pos + 1, Len(s))

\* s.substr(pos, n)
Substr(s, pos, n) == SubSeq(s, pos + 1, pos + n)

RECURSIVE Decimal(_)
\* operator<<(std::ostream&, std::size_t): the decimal digits of n
Decimal(n) ==
    IF n < 10 THEN <<Digits[n + 1]>>
    ELSE Decimal(n \div 10) \o <<Digits[(n % 10) + 1]>>

RECURSIVE Flatten(_)
Flatten(ss) == IF ss = <<>> THEN <<>> ELSE Head(ss) \o Flatten(Tail(ss))

-----------------------------------------------------------------------------
(* LineCodec *)

BracketSep == <<"]", " ", "[">>

\* ExtractKey once second is known
KeyAfterSecond(line, first, second) ==
    IF second = NPOS THEN SubstrFrom(line, first + 2)
    ELSE IF second + 2 >= Len(line) THEN line
    ELSE SubstrFrom(line, second + 2)

\* ExtractKey once first is known
KeyAfterFirst(line, first) ==
    IF first = NPOS THEN line
    ELSE KeyAfterSecond(line, first, Find(line, BracketSep, first + 1))

ExtractKey(line) == KeyAfterFirst(line, Find(line, BracketSep, 0))

RepeatPrefix == <<" ", "(", "r", "e", "p", "e", "a", "t", "e", "d", " ">>

RepeatSuffix == <<" ", "t", "i", "m", "e", "s", ")">>

RECURSIVE ParseDigits(_, _, _, _)
\* the digit loop of TryParseRepeatSuffix: the value of the numLen characters
\* from numStart on, or -1 when one of them is no digit
ParseDigits(s, numStart, numLen, value) ==
    IF numLen = 0 THEN value
    ELSE IF ~IsDigit(s[numStart + 1]) THEN -1
    ELSE ParseDigits(s, numStart + 1, numLen - 1,
                     value * 10 + DigitVal(s[numStart + 1]))

NoSuffix == [ok |-> FALSE, count |-> 0, pos |-> 0]

\* TryParseRepeatSuffix once the digits are read
SuffixOfValue(pos, value) ==
    IF value = -1 THEN NoSuffix
    ELSE IF value = 0 THEN NoSuffix
    ELSE [ok |-> TRUE, count |-> value, pos |-> pos]

\* TryParseRepeatSuffix once pos and end are known
SuffixAt(s, pos, end) ==
    IF pos = NPOS THEN NoSuffix
    ELSE IF end = NPOS THEN NoSuffix
    ELSE IF end + Len(RepeatSuffix) # Len(s) THEN NoSuffix
    ELSE IF end <= pos + Len(RepeatPrefix) THEN NoSuffix
    ELSE SuffixOfValue(pos, ParseDigits(s, pos + Len(RepeatPrefix),
                                        end - (pos + Len(RepeatPrefix)), 0))

\* TryParseRepeatSuffix taking the first " (repeated " of s for the last
TryParseFirstPrefix(s) ==
    IF Len(s) < Len(RepeatPrefix) + Len(RepeatSuffix) + 1 THEN NoSuffix
    ELSE SuffixAt(s, Find(s, RepeatPrefix, 0), RFind(s, RepeatSuffix))

\* [ok, count, pos]: the return value, outCount and suffixStartPos
TryParseRepeatSuffix(s) ==
    IF Len(s) < Len(RepeatPrefix) + Len(RepeatSuffix) + 1 THEN NoSuffix
    ELSE SuffixAt(s, RFind(s, RepeatPrefix), RFind(s, RepeatSuffix))

\* s without the suffix p found in it
Stripped(s, p) == IF p.ok THEN Substr(s, 0, p.pos) ELSE s

StripRepeatSuffix(s) == Stripped(s, TryParseRepeatSuffix(s))

\* the text of one record as the write loop of CompressAndTrimLogFile puts it
SerializeRecord(baseLine, count) ==
    IF count > 1 THEN baseLine \o RepeatPrefix \o Decimal(count) \o RepeatSuffix
    ELSE baseLine

-----------------------------------------------------------------------------
(* EntrySplitter *)

IsTimestampStart(s, i) ==
    IF i >= Len(s) THEN FALSE
    ELSE IF s[i + 1] # "[" THEN FALSE
    ELSE IF i + 6 >= Len(s) THEN FALSE
    ELSE /\ IsDigit(s[i + 2])
         /\ IsDigit(s[i + 3])
         /\ IsDigit(s[i + 4])
         /\ IsDigit(s[i + 5])
         /\ s[i + 6] = "-"

RECURSIVE SplitLoop(_, _, _, _)
\* SplitLoop without the flush of the last segment
SplitLoopNoFinalFlush(raw, i, start, out) ==
    IF i < Len(raw)
    THEN IF IsTimestampStart(raw, i)
         THEN SplitLoop(raw, i + 1, i,
                        IF i > start THEN Append(out, Substr(raw, start, i - start))
                        ELSE out)
         ELSE SplitLoop(raw, i + 1, start, out)
    ELSE out

\* the for loop of SplitConcatenatedLines from i on, and the flush after it
SplitLoop(raw, i, start, out) ==
    IF i < Len(raw)
    THEN IF IsTimestampStart(raw, i)
         THEN SplitLoop(raw, i + 1, i,
                        IF i > start THEN Append(out, Substr(raw, start, i - start))
                        ELSE out)
         ELSE SplitLoop(raw, i + 1, start, out)
    ELSE IF start < Len(raw) THEN Append(out, SubstrFrom(raw, start)) ELSE out

\* the segments SplitConcatenatedLines appends to an empty out
SplitConcatenatedLines(raw) == SplitLoop(raw, 1, 0, <<>>)

-----------------------------------------------------------------------------
(* DedupCompactor *)

RECURSIVE GetLines(_)
\* std::getline: the lines of bytes, nl the position of the first newline
LinesAt(bytes, nl) ==
    IF nl = NPOS THEN (IF bytes = <<>> THEN <<>> ELSE <<bytes>>)
    ELSE <<Substr(bytes, 0, nl)>> \o GetLines(SubstrFrom(bytes, nl + 1))

\* the lines the std::getline loop reads from the bytes of the file
GetLines(bytes) == LinesAt(bytes, Find(bytes, <<NL>>, 0))

NonEmpty(p) == p # <<>>

RECURSIVE ReadLoop(_, _)
\* the read loop: blank lines skipped, the others split, empty parts dropped
ReadLoop(raws, lines) ==
    IF raws = <<>> THEN lines
    ELSE IF Head(raws) = <<>> THEN ReadLoop(Tail(raws), lines)
    ELSE ReadLoop(Tail(raws),
                  lines \o SelectSeq(SplitConcatenatedLines(Head(raws)), NonEmpty))

\* the vector lines of CompressAndTrimLogFile after the read loop
ReadLogicalLines(bytes) == ReadLoop(GetLines(bytes), <<>>)

\* base, parsedCount and key of the logical line l, p the suffix found in it
LineParts(l, p) ==
    [base |-> Stripped(l, p), count |-> IF p.ok THEN p.count ELSE 1]

WithKey(parts) ==
    [base |-> parts.base, count |-> parts.count, key |-> ExtractKey(parts.base)]

\* what the grouping loop takes from one logical line
ParseLine(l) == WithKey(LineParts(l, TryParseRepeatSuffix(l)))

\* parsedCount of a logical line
ParsedCount(l) == ParseLine(l).count

\* base of a logical line
BaseOf(l) == ParseLine(l).base

\* key of a logical line
KeyOf(l) == ParseLine(l).key

\* indexByKey.find(key): the index in records, or NPOS for end()
IndexByKey(records, key) ==
    MinOrNpos({k \in 1..Len(records) : records[k].key = key})

\* BumpRecord counting a line with a suffix as one occurrence
BumpCountByOne(rec, p, i) ==
    [rec EXCEPT !.count = @ + 1, !.lastIndex = i, !.baseLine = p.base]

\* the else branch of the grouping loop: a key seen before
BumpRecord(rec, p, i) ==
    [rec EXCEPT !.count = @ + p.count, !.lastIndex = i, !.baseLine = p.base]

\* the two branches of the grouping loop, it the index indexByKey gives
Place(records, p, i, it) ==
    IF it = NPOS
    THEN Append(records, [key |-> p.key, baseLine |-> p.base,
                          count |-> p.count, lastIndex |-> i])
    ELSE [records EXCEPT ![it] = BumpRecord(@, p, i)]

\* one iteration of the grouping loop, p the parts of lines[i]
GroupStep(records, p, i) == Place(records, p, i, IndexByKey(records, p.key))

RECURSIVE GroupLoop(_, _, _)
\* the grouping loop of CompressAndTrimLogFile from index i on
GroupLoop(lines, i, records) ==
    IF i >= Len(lines) THEN records
    ELSE GroupLoop(lines, i + 1, GroupStep(records, ParseLine(lines[i + 1]), i))

\* records after the grouping loop, in the order of first occurrence
GroupRecords(lines) == GroupLoop(lines, 0, <<>>)

RECURSIVE InsertByLastIndex(_, _)
InsertByLastIndex(sorted, r) ==
    IF sorted = <<>> THEN <<r>>
    ELSE IF r.lastIndex < sorted[Len(sorted)].lastIndex
         THEN Append(InsertByLastIndex(SubSeq(sorted, 1, Len(sorted) - 1), r),
                     sorted[Len(sorted)])
         ELSE Append(sorted, r)

RECURSIVE StableSortLoop(_, _)
StableSortLoop(records, sorted) ==
    IF records = <<>> THEN sorted
    ELSE StableSortLoop(Tail(records), InsertByLastIndex(sorted, Head(records)))

\* std::stable_sort by lastIndex ascending
StableSort(records) == StableSortLoop(records, <<>>)

\* Trim erasing from the wrong end
TrimKeepFirst(records, n) ==
    IF Len(records) > n THEN SubSeq(records, 1, n) ELSE records

\* records.erase(begin, end - maxLines) when size > maxLines
Trim(records, n) ==
    IF Len(records) > n
    THEN SubSeq(records, Len(records) - n + 1, Len(records))
    ELSE records

\* the records CompressAndTrimLogFile writes for these logical lines
KeptRecords(lines, n) == Trim(StableSort(GroupRecords(lines)), n)

RECURSIVE WriteRecords(_)
\* the bytes the write loop puts into the truncated file
WriteRecords(records) ==
    IF records = <<>> THEN <<>>
    ELSE SerializeRecord(Head(records).baseLine, Head(records).count) \o <<NL>>
         \o WriteRecords(Tail(records))

NotRead(bytes) ==
    [file |-> bytes, read |-> FALSE, wrote |-> FALSE, lines |-> <<>>, recs |-> <<>>]

NotWritten(bytes, lines) ==
    [file |-> bytes, read |-> TRUE, wrote |-> FALSE, lines |-> lines, recs |-> <<>>]

\* the truncating rewrite of the file with the kept records
Rewrite(lines, recs) ==
    [file |-> WriteRecords(recs), read |-> TRUE, wrote |-> TRUE,
     lines |-> lines, recs |-> recs]

\* CompactLines truncating the file before it knows that it can write it
CompactLinesTruncating(bytes, wr, n, lines) ==
    IF lines = <<>> THEN NotWritten(bytes, lines)
    ELSE IF ~wr THEN NotWritten(<<>>, lines)
    ELSE Rewrite(lines, KeptRecords(lines, n))

\* CompactLines rewriting the file also when it read no line
CompactLinesRewritingEmpty(bytes, wr, n, lines) ==
    IF ~wr THEN NotWritten(bytes, lines)
    ELSE Rewrite(lines, KeptRecords(lines, n))

\* CompressAndTrimLogFile after the read loop
CompactLines(bytes, wr, n, lines) ==
    IF lines = <<>> THEN NotWritten(bytes, lines)
    ELSE IF ~wr THEN NotWritten(bytes, lines)
    ELSE Rewrite(lines, KeptRecords(lines, n))

\* CompressAndTrimLogFile(logPath, n) on a file with these bytes:
\* what it read, what it wrote, and the bytes of the file after it
CompressAndTrimLogFile(bytes, ex, rd, wr, n) ==
    IF ~(ex /\ rd) THEN NotRead(bytes)
    ELSE CompactLines(bytes, wr, n, ReadLogicalLines(bytes))

-----------------------------------------------------------------------------
(* LogWriter *)

\* enum class LogLevel
trace == 0
debug == 1
info == 2
warning == 3
error == 4
critical == 5

levelStr(level) ==
    CASE level = trace -> <<"T", "R", "A", "C", "E">>
      [] level = debug -> <<"D", "E", "B", "U", "G">>
      [] level = info -> <<"I", "N", "F", "O">>
      [] level = warning -> <<"W", "A", "R", "N", "I", "N", "G">>
      [] level = error -> <<"E", "R", "R", "O", "R">>
      [] level = critical -> <<"C", "R", "I", "T", "I", "C", "A", "L">>

\* the escape character of the ANSI colour codes, as one character
ESC == "ESC"

RED == <<ESC>> \o <<"[", "3", "1", "m">>

RESET == <<ESC>> \o <<"[", "0", "m">>

colorStr(level) ==
    CASE level = trace -> <<ESC>> \o <<"[", "3", "4", "m">>
      [] level = debug -> <<>>
      [] level = info -> <<ESC>> \o <<"[", "9", "0", "m">>
      [] level = warning -> <<ESC>> \o <<"[", "3", "3", "m">>
      [] level = error -> RED
      [] level = critical -> <<ESC>> \o <<"[", "9", "1", "m">>

\* the value GetLogPathOnce caches when the executable's directory is unknown
LogPath == <<"/", "l", "o", "g", ".", "t", "x", "t">>

\* baseLine of Log
Render(timestamp, level, message, messenger) ==
    IF messenger # <<>>
    THEN <<"[">> \o timestamp \o <<"]", " ", "[">> \o messenger \o <<"]", " ", "[">> \o levelStr(level)
         \o <<"]", " ">> \o message
    ELSE <<"[">> \o timestamp \o <<"]", " ", "[">> \o levelStr(level) \o <<"]", " ">> \o message

\* key of Log: what the duplicate detection is meant to compare
LogKey(level, message) == <<"[">> \o levelStr(level) \o <<"]", " ">> \o message

\* the console line of Log
Echo(level, baseLine) == colorStr(level) \o baseLine \o RESET

ToCerr(level) == level = error \/ level = critical

OpenFailedMsg ==
    RED \o <<"[", "E", "R", "R", "O", "R", "]", " ", "F", "a", "i", "l", "e", "d", " ", "t", "o", " ", "o", "p", "e", "n", " ", "l", "o", "g", " ", "f", "i", "l", "e", " ", "'">> \o LogPath \o <<"'", " ", "f", "o", "r", " ", "w", "r", "i", "t", "i", "n", "g", ".">> \o RESET

\* the ceiling Log gives the compaction: the source's MAX_LOG_LINES is 1000,
\* scaled down here so that a run of MaxCalls calls exceeds it
MAX_LOG_LINES == 2

\* the console after Log has echoed baseLine
Echoed(co, ce, level, baseLine) ==
    IF ToCerr(level)
    THEN [cout |-> co, cerr |-> Append(ce, Echo(level, baseLine))]
    ELSE [cout |-> Append(co, Echo(level, baseLine)), cerr |-> ce]

\* Log from the append on, con the console after the echo
AppendAndCompact(bytes, ex, wr, rd, con, baseLine) ==
    [exists |-> ex \/ wr,
     cout |-> con.cout,
     cerr |-> IF wr THEN con.cerr ELSE Append(con.cerr, OpenFailedMsg),
     compaction |-> CompressAndTrimLogFile(
                        IF wr THEN bytes \o baseLine \o <<NL>> ELSE bytes,
                        ex \/ wr, rd, wr, MAX_LOG_LINES)]

\* Log once baseLine is built
LogLine(bytes, ex, wr, rd, co, ce, level, baseLine) ==
    AppendAndCompact(bytes, ex, wr, rd, Echoed(co, ce, level, baseLine), baseLine)

\* Log(level, message, messenger) as one step, GetTimestamp returning timestamp:
\* the file system, the console and the compaction after it
LogEffect(bytes, ex, wr, rd, co, ce, timestamp, level, message, messenger) ==
    LogLine(bytes, ex, wr, rd, co, ce, level,
            Render(timestamp, level, message, messenger))

-----------------------------------------------------------------------------
(* Inputs *)

\* GetTimestamp: the local time as "%Y-%m-%d %X", one of these when Log runs
Timestamps == {<<"2", "0", "2", "4", "-", "0", "1", "-", "0", "1", " ", "0", "0", ":", "0", "0", ":", "0", "0">>, <<"2", "0", "2", "4", "-", "0", "1", "-", "0", "1", " ", "0", "0", ":", "0", "0", ":", "0", "1">>}

Levels == {info, error}

Messages == {<<"A">>, <<"B">>, <<"a", "]", " ", "[", "b">>, <<"A", " ", "(", "r", "e", "p", "e", "a", "t", "e", "d", " ", "2", " ", "t", "i", "m", "e", "s", ")">>, <<"[", "2", "0", "2", "4", "-", "x">>}

Messengers == {<<>>, <<"n", "e", "t">>}

\* the entries whose keys are compared
Entries ==
    [timestamp : Timestamps, level : Levels, message : Messages, messenger : Messengers]

\* the entries logged one call after another
LogEntries ==
    [timestamp : Timestamps, level : {info},
     message : {<<"A">>, <<"B">>, <<"A", " ", "(", "r", "e", "p", "e", "a", "t", "e", "d", " ", "2", " ", "t", "i", "m", "e", "s", ")">>, <<"[", "2", "0", "2", "4", "-", "x">>}, messenger : Messengers]

\* the messages logged by concurrent threads
ThreadMessages == {<<"A">>, <<"B">>}

\* calls of Log by all threads together in one run
MaxThreadCalls == 2

\* log.txt and its directory: <<exists, canRead, canWrite>>
FileCases ==
    {<<FALSE, TRUE, TRUE>>, <<TRUE, TRUE, TRUE>>, <<TRUE, FALSE, TRUE>>,
     <<TRUE, TRUE, FALSE>>, <<FALSE, TRUE, FALSE>>}

\* the pieces the strings given to the string functions are made of
Frags == {<<"A">>, <<"]", " ", "[">>, <<"[", "2", "0", "2", "4", "-">>, <<" ", "(", "r", "e", "p", "e", "a", "t", "e", "d", " ">>, <<" ", "t", "i", "m", "e", "s", ")">>, <<"2">>, <<"0">>}

RECURSIVE Strs(_)
\* the strings of at most n pieces
Strs(n) ==
    IF n = 0 THEN {<<>>}
    ELSE Strs(n - 1) \cup {s \o f : s \in Strs(n - 1), f \in Frags}

\* pieces in a string given to ExtractKey, TryParseRepeatSuffix, the splitter
MaxFrags == 4

\* pieces in the base line of a record to serialize
MaxBaseFrags == 3

\* largest count of a record to serialize
MaxCount == 12

\* the lines of the files given to the compaction: a blank line, an entry,
\* a later entry of the same key with a messenger and a count, two entries on
\* one line, a line ending in a timestamp marker, a line with two suffixes
FileLines ==
    {<<>>,
     <<"[", "2", "0", "2", "4", "-", "0", "1", "-", "0", "1", " ", "0", "0", ":", "0", "0", ":", "0", "0", "]", " ", "[", "I", "N", "F", "O", "]", " ", "A">>,
     <<"[", "2", "0", "2", "4", "-", "0", "1", "-", "0", "1", " ", "0", "0", ":", "0", "0", ":", "0", "1", "]", " ", "[", "n", "e", "t", "]", " ", "[", "I", "N", "F", "O", "]", " ", "A", " ", "(", "r", "e", "p", "e", "a", "t", "e", "d", " ", "2", " ", "t", "i", "m", "e", "s", ")">>,
     <<"[", "2", "0", "2", "4", "-", "0", "1", "-", "0", "1", " ", "0", "0", ":", "0", "0", ":", "0", "0", "]", " ", "[", "I", "N", "F", "O", "]", " ", "B", "[", "2", "0", "2", "4", "-", "0", "1", "-", "0", "1", " ", "0", "0", ":", "0", "0", ":", "0", "1", "]", " ", "[", "I", "N", "F", "O", "]", " ", "A">>,
     <<"D", "[", "2", "0", "2", "4", "-">>,
     <<"D", " ", "(", "r", "e", "p", "e", "a", "t", "e", "d", " ", "2", " ", "t", "i", "m", "e", "s", ")", " ", "(", "r", "e", "p", "e", "a", "t", "e", "d", " ", "1", " ", "t", "i", "m", "e", "s", ")">>}

\* lines in a file given to the compaction
MaxFileLines == 3

\* largest maxLines given to the compaction
MaxMaxLines == 2

\* compactions run in a row on one file
MaxPasses == 2

\* calls of Log in one run
MaxCalls == 3

RECURSIVE Files(_)
\* the files of at most n lines, each line ended by a newline
Files(n) ==
    IF n = 0 THEN {<<>>}
    ELSE Files(n - 1) \cup {f \o l \o <<NL>> : f \in Files(n - 1), l \in FileLines}

Threads == {1, 2}

NoThread == 0

NoFrame == [level |-> info, message |-> <<>>, messenger |-> <<>>,
            timestamp |-> <<>>, baseLine |-> <<>>, lines |-> <<>>]

\* the two-argument overload has no messenger argument
NoMessenger == <<"none">>

NoResult == [op |-> "none"]

NoArg == [kind |-> "none"]

-----------------------------------------------------------------------------
(* The string functions on their own *)

FnArgs ==
    {[kind |-> "line", s |-> s] : s \in Strs(MaxFrags)}
    \cup {[kind |-> "record", base |-> b, count |-> c] :
            b \in Strs(MaxBaseFrags), c \in 1..MaxCount}
    \cup {[kind |-> "entries", first |-> e1, second |-> e2] :
            e1 \in Entries, e2 \in Entries}

IdleThreads ==
    /\ mutex = NoThread
    /\ pc = [t \in Threads |-> "idle"]
    /\ frame = [t \in Threads |-> NoFrame]
    /\ done = <<>>
    /\ serial = [file |-> file, exists |-> exists, cout |-> <<>>, cerr |-> <<>>]

NoCompactionYet ==
    /\ maxLines = MAX_LOG_LINES
    /\ passes = 0
    /\ prevFile = <<>>
    /\ inLines = <<>>
    /\ outRecs = <<>>

InitFn ==
    /\ file = <<>> /\ exists = FALSE /\ canRead = TRUE /\ canWrite = TRUE
    /\ cout = <<>> /\ cerr = <<>>
    /\ IdleThreads
    /\ NoCompactionYet
    /\ arg \in FnArgs
    /\ res = NoResult

FnSplit ==
    /\ arg.kind = "line" /\ res = NoResult
    /\ res' = [op |-> "Split", out |-> SplitConcatenatedLines(arg.s)]
    /\ UNCHANGED <<fsVars, conVars, thrVars, cmpVars, arg>>

FnTryParse ==
    /\ arg.kind = "line" /\ res = NoResult
    /\ res' = [op |-> "TryParse", out |-> TryParseRepeatSuffix(arg.s),
               stripped |-> StripRepeatSuffix(arg.s)]
    /\ UNCHANGED <<fsVars, conVars, thrVars, cmpVars, arg>>

FnExtractKey ==
    /\ arg.kind = "line" /\ res = NoResult
    /\ res' = [op |-> "ExtractKey", out |-> ExtractKey(arg.s)]
    /\ UNCHANGED <<fsVars, conVars, thrVars, cmpVars, arg>>

\* serialize a record as the write loop does, then parse the line back
FnRoundTrip ==
    /\ arg.kind = "record" /\ res = NoResult
    /\ \E line \in {SerializeRecord(arg.base, arg.count)} :
           res' = [op |-> "RoundTrip", line |-> line,
                   out |-> TryParseRepeatSuffix(line),
                   stripped |-> StripRepeatSuffix(line)]
    /\ UNCHANGED <<fsVars, conVars, thrVars, cmpVars, arg>>

RenderEntry(e) == Render(e.timestamp, e.level, e.message, e.messenger)

\* render two entries as Log does and take the keys the compaction groups by
FnKeys ==
    /\ arg.kind = "entries" /\ res = NoResult
    /\ \E l1 \in {RenderEntry(arg.first)}, l2 \in {RenderEntry(arg.second)} :
           res' = [op |-> "Keys", key1 |-> ExtractKey(l1), key2 |-> ExtractKey(l2),
                   merged |-> (KeyOf(l1) = KeyOf(l2))]
    /\ UNCHANGED <<fsVars, conVars, thrVars, cmpVars, arg>>

NextFn == FnSplit \/ FnTryParse \/ FnExtractKey \/ FnRoundTrip \/ FnKeys

SpecFn == InitFn /\ [][NextFn]_vars

-----------------------------------------------------------------------------
(* The compaction on its own *)

InitCompact ==
    /\ file \in Files(MaxFileLines)
    /\ exists = TRUE
    \* a file that opens for reading and for the rewrite, for one of them only
    /\ \E opens \in {<<TRUE, TRUE>>, <<FALSE, TRUE>>, <<TRUE, FALSE>>} :
           canRead = opens[1] /\ canWrite = opens[2]
    /\ cout = <<>> /\ cerr = <<>>
    /\ IdleThreads
    /\ maxLines \in 0..MaxMaxLines
    /\ passes = 0
    /\ prevFile = <<>>
    /\ inLines = <<>>
    /\ outRecs = <<>>
    /\ arg = NoArg
    /\ res = NoResult

\* one call CompressAndTrimLogFile(logPath, maxLines)
Compact ==
    /\ passes < MaxPasses
    /\ \E c \in {CompressAndTrimLogFile(file, exists, canRead, canWrite, maxLines)} :
           /\ file' = c.file
           /\ inLines' = c.lines
           /\ outRecs' = c.recs
           /\ res' = [op |-> "Compact", read |-> c.read, wrote |-> c.wrote]
    /\ prevFile' = file
    /\ passes' = passes + 1
    /\ UNCHANGED <<exists, canRead, canWrite, conVars, thrVars, maxLines, arg>>

NextCompact == Compact

SpecCompact == InitCompact /\ [][NextCompact]_vars

-----------------------------------------------------------------------------
(* Log, one call after another *)

InitLog ==
    /\ file = <<>>
    /\ \E fc \in FileCases : exists = fc[1] /\ canRead = fc[2] /\ canWrite = fc[3]
    /\ cout = <<>> /\ cerr = <<>>
    /\ IdleThreads
    /\ NoCompactionYet
    /\ arg = NoArg
    /\ res = NoResult

\* one call Log(level, message, messenger) from entry to return
LogCall(e) ==
    /\ Len(done) < MaxCalls
    /\ \E r \in {LogEffect(file, exists, canWrite, canRead, cout, cerr,
                             e.timestamp, e.level, e.message, e.messenger)} :
           /\ file' = r.compaction.file
           /\ exists' = r.exists
           /\ cout' = r.cout
           /\ cerr' = r.cerr
           /\ prevFile' = file
           /\ inLines' = r.compaction.lines
           /\ outRecs' = r.compaction.recs
           /\ res' = [op |-> "Log", read |-> r.compaction.read,
                      wrote |-> r.compaction.wrote]
    /\ done' = Append(done, e)
    /\ passes' = 1
    /\ UNCHANGED <<canRead, canWrite, mutex, pc, frame, serial, maxLines, arg>>

NextLog == \E e \in LogEntries : LogCall(e)

SpecLog == InitLog /\ [][NextLog]_vars

-----------------------------------------------------------------------------
(* Log and the compaction on a log that is already there *)

\* lines in the log the calls find
MaxFoundLines == 2

\* the entries logged into a log that is already there
FoundEntries ==
    [timestamp : {<<"2", "0", "2", "4", "-", "0", "1", "-", "0", "1", " ", "0", "0", ":", "0", "0", ":", "0", "1">>}, level : {info, error},
     message : {<<"A">>}, messenger : {<<>>}]

InitFound ==
    /\ file \in Files(MaxFoundLines)
    /\ exists \in BOOLEAN
    /\ exists = FALSE => file = <<>>
    /\ canRead \in BOOLEAN
    /\ canWrite \in BOOLEAN
    /\ cout = <<>> /\ cerr = <<>>
    /\ IdleThreads
    /\ NoCompactionYet
    /\ arg = NoArg
    /\ res = NoResult

NextFound ==
    \/ Compact
    \/ \E e \in FoundEntries : LogCall(e)

SpecFound == InitFound /\ [][NextFound]_vars

-----------------------------------------------------------------------------
(* Log called by concurrent threads *)

\* where a thread holds logMutex: from the lock_guard to the return
InLog == {"format", "append", "read", "write", "unlock"}

Started == Len(done) + Cardinality({t \in Threads : pc[t] # "idle"})

\* thread t calls Log(level, message, messenger)
Call3(t, level, message, messenger) ==
    /\ pc[t] = "idle"
    /\ Started < MaxThreadCalls
    /\ frame' = [frame EXCEPT ![t] = [NoFrame EXCEPT !.level = level,
                                                     !.message = message,
                                                     !.messenger = messenger]]
    /\ pc' = [pc EXCEPT ![t] = "lock"]
    /\ UNCHANGED <<fsVars, conVars, mutex, done, serial, cmpVars, fnVars>>

\* thread t calls Log(level, message)
Call2(t, level, message) ==
    /\ pc[t] = "idle"
    /\ Started < MaxThreadCalls
    /\ frame' = [frame EXCEPT ![t] = [NoFrame EXCEPT !.level = level,
                                                     !.message = message,
                                                     !.messenger = NoMessenger]]
    /\ pc' = [pc EXCEPT ![t] = "forward"]
    /\ UNCHANGED <<fsVars, conVars, mutex, done, serial, cmpVars, fnVars>>

\* Forward locking logMutex before it calls the three-argument overload
ForwardHoldingLock(t) ==
    /\ pc[t] = "forward"
    /\ mutex = NoThread
    /\ mutex' = t
    /\ frame' = [frame EXCEPT ![t].messenger = <<>>]
    /\ pc' = [pc EXCEPT ![t] = "lock"]
    /\ UNCHANGED <<fsVars, conVars, done, serial, cmpVars, fnVars>>

\* the two-argument overload calls the three-argument one with std::string()
Forward(t) ==
    /\ pc[t] = "forward"
    /\ frame' = [frame EXCEPT ![t].messenger = <<>>]
    /\ pc' = [pc EXCEPT ![t] = "lock"]
    /\ UNCHANGED <<fsVars, conVars, mutex, done, serial, cmpVars, fnVars>>

\* Acquire entering although logMutex is held
AcquireWithoutWaiting(t) ==
    /\ pc[t] = "lock"
    /\ mutex' = t
    /\ pc' = [pc EXCEPT ![t] = "format"]
    /\ UNCHANGED <<fsVars, conVars, frame, done, serial, cmpVars, fnVars>>

\* std::lock_guard<std::mutex> lock(logMutex)
Acquire(t) ==
    /\ pc[t] = "lock"
    /\ mutex = NoThread
    /\ mutex' = t
    /\ pc' = [pc EXCEPT ![t] = "format"]
    /\ UNCHANGED <<fsVars, conVars, frame, done, serial, cmpVars, fnVars>>

\* GetTimestamp, the base line and the console output
Format(t, timestamp) ==
    /\ pc[t] = "format"
    /\ \E baseLine \in {Render(timestamp, frame[t].level, frame[t].message,
                               frame[t].messenger)} :
           /\ frame' = [frame EXCEPT ![t].timestamp = timestamp,
                                     ![t].baseLine = baseLine]
           /\ \E con \in {Echoed(cout, cerr, frame[t].level, baseLine)} :
                  cout' = con.cout /\ cerr' = con.cerr
    /\ pc' = [pc EXCEPT ![t] = "append"]
    /\ UNCHANGED <<fsVars, mutex, done, serial, cmpVars, fnVars>>

\* the append of the base line, or the report that the file did not open
AppendLine(t) ==
    /\ pc[t] = "append"
    /\ IF canWrite
       THEN /\ file' = file \o frame[t].baseLine \o <<NL>>
            /\ exists' = TRUE
            /\ UNCHANGED cerr
       ELSE /\ cerr' = Append(cerr, OpenFailedMsg)
            /\ UNCHANGED <<file, exists>>
    /\ pc' = [pc EXCEPT ![t] = "read"]
    /\ UNCHANGED <<canRead, canWrite, cout, mutex, frame, done, serial, cmpVars, fnVars>>

\* CompressAndTrimLogFile to the end of its read loop and the return after it
CompactRead(t) ==
    /\ pc[t] = "read"
    /\ IF exists /\ canRead
       THEN \E lines \in {ReadLogicalLines(file)} :
                /\ frame' = [frame EXCEPT ![t].lines = lines]
                /\ pc' = [pc EXCEPT ![t] = IF lines = <<>> THEN "unlock" ELSE "write"]
       ELSE /\ pc' = [pc EXCEPT ![t] = "unlock"]
            /\ UNCHANGED frame
    /\ UNCHANGED <<fsVars, conVars, mutex, done, serial, cmpVars, fnVars>>

\* CompressAndTrimLogFile from the grouping loop on
CompactWrite(t) ==
    /\ pc[t] = "write"
    /\ IF canWrite
       THEN file' = WriteRecords(KeptRecords(frame[t].lines, MAX_LOG_LINES))
       ELSE UNCHANGED file
    /\ pc' = [pc EXCEPT ![t] = "unlock"]
    /\ UNCHANGED <<exists, canRead, canWrite, conVars, mutex, frame, done, serial,
                   cmpVars, fnVars>>

\* the file and the console when the call of frame f runs alone after s
SerialAfter(s, f) ==
    [file |-> f.compaction.file, exists |-> f.exists, cout |-> f.cout, cerr |-> f.cerr]

\* the return of Log: the lock_guard releases logMutex
Release(t) ==
    /\ pc[t] = "unlock"
    /\ mutex' = NoThread
    /\ pc' = [pc EXCEPT ![t] = "idle"]
    /\ done' = Append(done, [thread |-> t, level |-> frame[t].level,
                             message |-> frame[t].message,
                             messenger |-> frame[t].messenger,
                             timestamp |-> frame[t].timestamp])
    /\ serial' = SerialAfter(serial,
                     LogEffect(serial.file, serial.exists, canWrite, canRead,
                               serial.cout, serial.cerr, frame[t].timestamp,
                               frame[t].level, frame[t].message, frame[t].messenger))
    /\ frame' = [frame EXCEPT ![t] = NoFrame]
    /\ UNCHANGED <<fsVars, conVars, cmpVars, fnVars>>

Init ==
    /\ file = <<>>
    /\ \E fc \in FileCases : exists = fc[1] /\ canRead = fc[2] /\ canWrite = fc[3]
    /\ cout = <<>> /\ cerr = <<>>
    /\ IdleThreads
    /\ NoCompactionYet
    /\ arg = NoArg
    /\ res = NoResult

\* what GetTimestamp returns after n calls of Log have returned, for a clock
\* that advances one second with every call (n < 10)
Clock(n) == <<"2", "0", "2", "4", "-", "0", "1", "-", "0", "1", " ", "0", "0", ":", "0", "0", ":", "0">> \o Decimal(n)

Next ==
    \E t \in Threads :
        \* a direct call with an empty messenger is what Forward makes of Call2
        \/ \E level \in Levels, message \in ThreadMessages :
               Call3(t, level, message, <<"n", "e", "t">>)
        \/ \E level \in Levels, message \in ThreadMessages : Call2(t, level, message)
        \/ Forward(t)
        \/ Acquire(t)
        \/ \E timestamp \in {Clock(Len(done))} : Format(t, timestamp)
        \/ AppendLine(t)
        \/ CompactRead(t)
        \/ CompactWrite(t)
        \/ Release(t)

Spec == Init /\ [][Next]_vars

\* a step of thread t inside a call of Log it has made
LogStep(t) ==
    \/ Forward(t)
    \/ Acquire(t)
    \/ \E timestamp \in {Clock(Len(done))} : Format(t, timestamp)
    \/ AppendLine(t)
    \/ CompactRead(t)
    \/ CompactWrite(t)
    \/ Release(t)

\* where a thread can be
PcValues == {"idle", "forward", "lock", "format", "append", "read", "write", "unlock"}

\* LogStep(t) as pc shows it: thread t is inside a call, is not waiting for
\* a held logMutex, and moves on
Advance(t) ==
    /\ pc[t] # "idle"
    /\ pc[t] = "lock" => mutex = NoThread
    /\ \E p \in PcValues \ {pc[t]} : pc' = [pc EXCEPT ![t] = p]

\* the steps of Advance(t) are the steps of LogStep(t)
AdvanceIsLogStep == [][\A t \in Threads : Advance(t) <=> LogStep(t)]_vars

\* every thread inside Log is scheduled again and again, and gets logMutex
\* if it stays free; nothing makes a thread call Log
SpecFair == Init /\ [][Next]_vars /\ \A t \in Threads : WF_pc(Advance(t))

-----------------------------------------------------------------------------
(* Properties *)

RECURSIVE SumOfCounts(_, _)
\* the sum of the multiplicities of the lines of key key
SumOfCounts(lines, key) ==
    IF lines = <<>> THEN 0
    ELSE (IF KeyOf(Head(lines)) = key THEN ParsedCount(Head(lines)) ELSE 0)
         + SumOfCounts(Tail(lines), key)

RECURSIVE TotalCount(_)
TotalCount(records) ==
    IF records = <<>> THEN 0 ELSE Head(records).count + TotalCount(Tail(records))

KeysOf(lines) == {KeyOf(lines[i]) : i \in 1..Len(lines)}

KeysIn(records) == {records[k].key : k \in 1..Len(records)}

\* the index of the last line of key key
LastSeenIndex(lines, key) == Max({i \in 0..(Len(lines) - 1) : KeyOf(lines[i + 1]) = key})

Rewrote == res.op = "Compact" /\ res.wrote

\* C1: a second compaction in a row leaves the file as the first one left it
C1_CompactionIdempotent == passes = 2 => file = prevFile

\* C2: ExtractKey of a rendered entry is "[LEVEL] message", and two entries
\* have one key exactly when they have the same level and the same message
C2_KeyIsLevelAndMessage ==
    res.op = "Keys" =>
        /\ res.key1 = LogKey(arg.first.level, arg.first.message)
        /\ res.key2 = LogKey(arg.second.level, arg.second.message)
        /\ res.merged <=> (/\ arg.first.level = arg.second.level
                           /\ arg.first.message = arg.second.message)

\* C3: every record written has the sum of the multiplicities of the input
\* lines of its key as count, so the counts written add up to the
\* multiplicities of the lines of retained keys
C3_CountConservation ==
    Rewrote =>
        /\ \A k \in 1..Len(outRecs) :
               outRecs[k].count = SumOfCounts(inLines, outRecs[k].key)
        /\ TotalCount(outRecs)
             = TotalCount([i \in 1..Len(inLines) |->
                             [count |-> IF KeyOf(inLines[i]) \in KeysIn(outRecs)
                                        THEN ParsedCount(inLines[i]) ELSE 0]])

C3_Witness ==
    /\ Rewrote
    /\ Cardinality(KeysOf(inLines)) > Len(outRecs)
    /\ \E k \in 1..Len(outRecs) :
           /\ outRecs[k].count >= 4
           /\ Cardinality({i \in 1..Len(inLines) : KeyOf(inLines[i]) = outRecs[k].key}) >= 2

\* C4: min(maxLines, D) records are written, in strictly increasing order of
\* the index of the last line of their key, and the records dropped are those
\* of the smallest such indices
C4_RecencyOrderAndTrim ==
    Rewrote =>
        /\ Len(outRecs) = Min({maxLines, Cardinality(KeysOf(inLines))})
        /\ Len(GetLines(file)) = Len(outRecs)
        /\ KeysIn(outRecs) \subseteq KeysOf(inLines)
        /\ \A k \in 1..Len(outRecs) :
               outRecs[k].lastIndex = LastSeenIndex(inLines, outRecs[k].key)
        /\ \A j, k \in 1..Len(outRecs) :
               j < k => outRecs[j].lastIndex < outRecs[k].lastIndex
        /\ \A key \in KeysOf(inLines) \ KeysIn(outRecs) :
               \A k \in 1..Len(outRecs) :
                   LastSeenIndex(inLines, key) < outRecs[k].lastIndex

C4_Witness ==
    /\ Rewrote
    /\ maxLines >= 2
    /\ Cardinality(KeysOf(inLines)) > maxLines
    /\ \E i \in 1..Len(inLines) :
           /\ KeyOf(inLines[i]) = outRecs[Len(outRecs)].key
           /\ KeyOf(inLines[i]) = KeyOf(inLines[1])
           /\ i > 2

AllOpen == canRead /\ canWrite

FileLineCount == Len(GetLines(file))

\* no line of the file has the key of entry e
Absent(e) ==
    \A l \in {ReadLogicalLines(file)[i] : i \in 1..Len(ReadLogicalLines(file))} :
        KeyOf(l) # LogKey(e.level, e.message)

EndsWith(s, tail) ==
    Len(s) >= Len(tail) /\ SubstrFrom(s, Len(s) - Len(tail)) = tail

\* C5: after a call of Log with every file opened, the file has at most
\* MAX_LOG_LINES lines; after MAX_LOG_LINES + 1 pairwise distinct messages into
\* an empty log it has MAX_LOG_LINES lines and not the first message
C5_BoundedFile ==
    (res.op = "Log" /\ AllOpen) =>
        /\ FileLineCount <= MAX_LOG_LINES
        /\ (/\ Len(done) = MAX_LOG_LINES + 1
            /\ \A i, j \in 1..Len(done) : i # j => done[i].message # done[j].message)
           => (FileLineCount = MAX_LOG_LINES /\ Absent(done[1]))

\* C6: the same level and message logged k >= 2 times into an empty log
\* leaves one line, which ends with " (repeated k times)"
C6_RepeatsCollapse ==
    (/\ res.op = "Log" /\ AllOpen
     /\ Len(done) >= 2
     /\ \A i \in 1..Len(done) : /\ done[i].level = done[1].level
                                /\ done[i].message = done[1].message)
    => /\ FileLineCount = 1
       /\ EndsWith(GetLines(file)[1],
                   RepeatPrefix \o Decimal(Len(done)) \o RepeatSuffix)

\* C7: at most one thread is between locking logMutex and returning from Log,
\* and when no thread is, the file and the console are those of the calls
\* returned so far run one after another
C7_MutualExclusion ==
    /\ Cardinality({t \in Threads : pc[t] \in InLog}) <= 1
    /\ \A t \in Threads : pc[t] \in InLog => mutex = t
    /\ (\A t \in Threads : pc[t] \notin InLog) =>
           /\ mutex = NoThread
           /\ file = serial.file
           /\ exists = serial.exists
           /\ cout = serial.cout
           /\ cerr = serial.cerr

C7_Witness ==
    /\ Len(done) = 2
    /\ done[1].thread # done[2].thread
    /\ done[1].message # done[2].message
    /\ FileLineCount = 2
    /\ \A t \in Threads : pc[t] = "idle"

\* C8: a record of count > 1 parses back to its count and to the length of
\* its base line, and stripping gives the base line; a record of count 1 is
\* written as its base line
C8_SuffixRoundTrip ==
    res.op = "RoundTrip" =>
        IF arg.count > 1
        THEN /\ res.line = arg.base \o RepeatPrefix \o Decimal(arg.count) \o RepeatSuffix
             /\ res.out.ok
             /\ res.out.count = arg.count
             /\ res.out.pos = Len(arg.base)
             /\ res.stripped = arg.base
        ELSE res.line = arg.base

C8_Witness ==
    /\ res.op = "RoundTrip"
    /\ arg.count >= 10
    /\ TryParseRepeatSuffix(arg.base).ok
    /\ res.out.ok

\* C9: the segments of a raw line are non-empty and concatenate to the raw
\* line; an empty raw line has no segment
C9_SplitInvariant ==
    res.op = "Split" =>
        /\ Flatten(res.out) = arg.s
        /\ \A k \in 1..Len(res.out) : res.out[k] # <<>>
        /\ arg.s = <<>> => res.out = <<>>

C9_Witness == res.op = "Split" /\ Len(res.out) >= 3

\* C10: the first call of Log on an empty or missing log that can be written
\* leaves exactly the rendered entry as the one line of the file
C10_FirstCall ==
    (res.op = "Log" /\ canWrite /\ Len(done) = 1)
    => file = RenderEntry(done[1]) \o <<NL>>

\* the entry of the call of Log that returns in this step
Returning == done'[Len(done')]

\* a compaction that cannot open the file leaves it as it is
FailedCompactionKeeps ==
    (done' = done /\ passes' # passes /\ (~(exists /\ canRead) \/ ~canWrite))
    => /\ file' = file /\ exists' = exists
       /\ ~res'.wrote
       /\ ~(exists /\ canRead) => ~res'.read

\* a call of Log that cannot open the file for append leaves it as it is and
\* writes its echo, then the failure on standard error, and nothing else
FailedAppendKeeps ==
    (done' # done /\ ~canWrite)
    => /\ file' = file /\ exists' = exists
       /\ res'.op = "Log"
       /\ Echoed(cout, cerr, Returning.level, RenderEntry(Returning))
            = [cout |-> cout', cerr |-> SubSeq(cerr', 1, Len(cerr') - 1)]
       /\ cerr'[Len(cerr')] = OpenFailedMsg

\* C11: a compaction that cannot open the file for reading, or for the
\* rewrite, leaves the file as it is; a call of Log that cannot open it for
\* append leaves it as it is, writes the failure to standard error only, and
\* returns
C11_FailuresKeepContent == [][FailedCompactionKeeps /\ FailedAppendKeeps]_vars

C11_Witness ==
    /\ res.op = "Log"
    /\ exists /\ canRead /\ ~canWrite
    /\ Len(GetLines(file)) = 2
    /\ Len(ReadLogicalLines(file)) > Cardinality(KeysOf(ReadLogicalLines(file)))
    /\ Len(done) = 2
    /\ Len(cerr) = 3

\* every line of these bytes is blank: they are line ends and nothing else
AllBlank(bytes) == \A i \in 1..Len(bytes) : bytes[i] = NL

\* C12: a compaction of a file without a non-blank line does not rewrite it
\* and leaves its bytes, blank lines included; a compaction with maxLines = 0
\* of a file with a non-blank line rewrites it with zero lines
C12_EmptyInputNoOp ==
    (res.op = "Compact" /\ res.read) =>
        /\ AllBlank(prevFile) => (~res.wrote /\ file = prevFile)
        /\ (~AllBlank(prevFile) /\ canWrite /\ maxLines = 0)
             => (res.wrote /\ file = <<>>)

C12_Witness ==
    /\ res.op = "Compact" /\ res.read /\ canWrite
    /\ passes = 1
    /\ maxLines = 0
    /\ Len(GetLines(prevFile)) = 2
    /\ AllBlank(prevFile)
    /\ file = prevFile

\* the key Log computes for the entry of call i
CallKey(i) == LogKey(done[i].level, done[i].message)

\* the last call that logged the key of call i
LastCallOf(i) == Max({j \in 1..Len(done) : CallKey(j) = CallKey(i)})

\* the other keys logged after the last call of the key of call i
KeysSince(i) == {CallKey(j) : j \in (LastCallOf(i) + 1)..Len(done)}

\* C13: after a call of Log, the key of an entry is absent from the file only
\* if at least MAX_LOG_LINES other keys were logged since its last call
C13_EvictionByLastOccurrence ==
    (res.op = "Log" /\ AllOpen) =>
        \A i \in 1..Len(done) :
            Absent(done[i]) => Cardinality(KeysSince(i)) >= MAX_LOG_LINES

\* what a line of the entry e starts with: its timestamp and its source
Header(e) ==
    IF e.messenger # <<>>
    THEN <<"[">> \o e.timestamp \o <<"]", " ", "[">> \o e.messenger \o <<"]", " ">>
    ELSE <<"[">> \o e.timestamp \o <<"]", " ">>

StartsWith(s, head) == Len(s) >= Len(head) /\ SubSeq(s, 1, Len(head)) = head

\* every record has the base line of the last line of its key
BaseLineOfLastLine ==
    \A k \in 1..Len(outRecs) :
        outRecs[k].baseLine
          = BaseOf(inLines[LastSeenIndex(inLines, outRecs[k].key) + 1])

\* C14: after a compaction every record has the text, without repeat suffix,
\* of the last line of its key; after a call of Log that appended its entry
\* the last line of the file is the record of that entry, with the timestamp
\* and the source of the call
C14_MostRecentWins ==
    /\ (res.op = "Log" /\ res.wrote) => BaseLineOfLastLine
    /\ (res.op = "Log" /\ canWrite /\ MAX_LOG_LINES >= 1) =>
           /\ FileLineCount >= 1
           /\ StartsWith(GetLines(file)[FileLineCount], Header(done[Len(done)]))
           /\ res.wrote => /\ outRecs[Len(outRecs)].lastIndex = Len(inLines) - 1
                            /\ outRecs[Len(outRecs)].key = CallKey(Len(done))

\* the character at position i of s is "[" and four digits and "-" follow it
YearPrefixAt(s, i) ==
    /\ i >= 0 /\ i + 5 < Len(s)
    /\ s[i + 1] = "["
    /\ \A d \in 1..4 : IsDigit(s[i + 1 + d])
    /\ s[i + 6] = "-"

\* the positions of s where a segment other than the first starts
RECURSIVE SegmentStarts(_, _)
SegmentStarts(segs, at) ==
    IF Len(segs) <= 1 THEN {}
    ELSE {at + Len(Head(segs))}
         \cup SegmentStarts(Tail(segs), at + Len(Head(segs)))

\* C15: IsTimestampStart holds at a position exactly when "[", four digits
\* and "-" stand there, and the segments of a raw line start at position 0
\* and at every later position where that holds, nowhere else
C15_TimestampSplitting ==
    res.op = "Split" =>
        /\ \A i \in 0..Len(arg.s) :
               IsTimestampStart(arg.s, i) <=> YearPrefixAt(arg.s, i)
        /\ SegmentStarts(res.out, 0)
             = {i \in 1..(Len(arg.s) - 1) : YearPrefixAt(arg.s, i)}

\* C16: after a compaction that rewrote the file, no two lines of the file,
\* read as the compaction reads them, have one key
C16_KeysUniqueInFile ==
    Rewrote =>
        Cardinality(KeysOf(ReadLogicalLines(file))) = Len(ReadLogicalLines(file))

\* C17: every call of Log returns, and logMutex is free when no call is
\* running; the two-argument overload does not hold logMutex when it
\* forwards, and forwards an empty messenger
C17_LogCompletes ==
    /\ \A t \in Threads : (pc[t] # "idle") ~> (pc[t] = "idle")
    /\ []((\A t \in Threads : pc[t] \in {"idle", "forward", "lock"})
            => mutex = NoThread)
    /\ [](\A t \in Threads :
             pc[t] \notin {"idle", "forward"} => frame[t].messenger # NoMessenger)
    /\ [][\A t \in Threads :
             (pc[t] = "forward" /\ pc'[t] # "forward")
             => (pc'[t] = "lock" /\ mutex' = mutex
                 /\ frame'[t] = [frame[t] EXCEPT !.messenger = <<>>])]_vars

C17_Witness ==
    /\ ~canWrite
    /\ Len(done) = 0
    /\ pc[1] = "lock"
    /\ mutex = 2
    /\ pc[2] = "unlock"
=============================================================================
